---- MODULE Spec2Model ----
(***************************************************************************)
(* Model of evoground_core::evolution_strategies (mod.rs): SimpleMutator,  *)
(* SimpleSelector and EvolutionStrategy.                                   *)
(*                                                                         *)
(* Individuals are f64 values.  They are modelled on an integer grid,      *)
(* together with NaN, the one value f64 comparisons do not order.          *)
(*                                                                         *)
(* slice::sort_by is modelled by the contract std documents for it: the    *)
(* sort is stable; if the comparator is not a total order on the slice,    *)
(* the resulting order is unspecified and the call may panic.  (std takes  *)
(* these paths only on slices of more than 20 elements; shorter ones are   *)
(* insertion-sorted.  The model applies the contract at every length.)     *)
(*                                                                         *)
(* Spec is an EvolutionStrategy from new() on, with run() and              *)
(* best_individual() called any number of times; one iteration of the loop *)
(* of run is two steps, Mutation then Selection.  SelectSpec is one call   *)
(* of SimpleSelector::select on an arbitrary slice.                        *)
(***************************************************************************)
EXTENDS Integers, Sequences, FiniteSets

\* ---------------------------------------------------------------- bounds
MaxVal == 3            \* individuals lie on the grid 1..MaxVal (or are NaN)
MaxPopulation == 2     \* length of the population handed to new()
MaxCandidates == 4     \* length of the slice handed to a direct select() call
MaxSelection == 2      \* selection_size ranges over 0..MaxSelection
MutationSize == 2      \* mutation_size, in grid steps
RateDen == 2           \* random() is a multiple of 1/RateDen in [0,1)
MaxGenerations == 1    \* the argument of run() ranges over 0..MaxGenerations

\* The optimum of the objective of main.rs and of the test.
Centre == 2

\* SimpleMutator::new(0.1, ..): a rate strictly between 0 and 1, so that a
\* draw can fall on either side of it; in units of 1/RateDen.  (A rate of 0
\* or of 1 allows a subset of the offspring this rate allows.)
MutationRate == 1

\* ------------------------------------------------------------ f64 values
F(x) == [nan |-> FALSE, v |-> x]
NaN == [nan |-> TRUE, v |-> 0]
Grid == 1..MaxVal
Individuals == {F(x) : x \in Grid} \cup {NaN}

RECURSIVE SeqsUpTo(_, _)
SeqsUpTo(S, n) ==
  IF n = 0 THEN {<<>>}
  ELSE LET shorter == SeqsUpTo(S, n - 1)
       IN shorter \cup {Append(s, x) : s \in {t \in shorter : Len(t) = n - 1}, x \in S}

Min(a, b) == IF a <= b THEN a ELSE b
Last(s) == s[Len(s)]
Front(s) == SubSeq(s, 1, Len(s) - 1)
Range(s) == {s[i] : i \in DOMAIN s}

\* -------------------------------------------------------------- objective
\* main.rs:5 and mod.rs:125: -(x - 2)^2 + 10; arithmetic on NaN yields NaN.
Parabola(x) == IF x.nan THEN NaN ELSE F(10 - (x.v - Centre) * (x.v - Centre))
\* f(x) = x, the other caller-supplied objective exercised.
Identity(x) == x
Objectives == {"parabola", "identity"}
Apply(f, x) == IF f = "parabola" THEN Parabola(x) ELSE Identity(x)

\* f64 comparisons: every comparison with NaN is false.
Gt(a, b) == ~a.nan /\ ~b.nan /\ a.v > b.v
Ge(a, b) == ~a.nan /\ ~b.nan /\ a.v >= b.v

\* f64::partial_cmp
partial_cmp(a, b) ==
  IF a.nan \/ b.nan THEN "None"
  ELSE IF a.v < b.v THEN "Less"
  ELSE IF a.v > b.v THEN "Greater"
  ELSE "Equal"

\* The closure with the comparison the other way round: ascending scores.
compare_ascending(f, a, b) ==
  LET c == partial_cmp(Apply(f, a), Apply(f, b))
  IN IF c = "None" THEN "Equal" ELSE c

\* The closure handed to sort_by: score_b.partial_cmp(&score_a), NaN as Equal.
compare(f, a, b) ==
  LET score_a == Apply(f, a)
      score_b == Apply(f, b)
      c == partial_cmp(score_b, score_a)
  IN IF c = "None" THEN "Equal" ELSE c

\* ---------------------------------------------------------------- sort_by
\* The sort works on the indices of the slice, so that two candidates of the
\* same value stay distinguishable.
is_less_or_equal(f, cands, i, j) == compare(f, cands[i], cands[j]) # "Greater"

is_less(f, cands, i, j) == compare(f, cands[i], cands[j]) = "Less"

\* The comparator is a total order on the slice iff "not Greater" is transitive.
\* It orders the scores that are not NaN as numbers and makes a NaN score
\* Equal to every score: transitivity fails exactly when a NaN score occurs
\* beside two unequal ordered scores.
IsTotalOrder(f, cands) ==
  LET scores == {Apply(f, cands[i]) : i \in DOMAIN cands}
  IN ~(NaN \in scores /\ Cardinality(scores \ {NaN}) > 1)

\* Insert index x into the sorted prefix s: x moves left past every element it
\* is less than, and stops at the first it is not less than (stable).
RECURSIVE insert_tail(_, _, _, _)
insert_tail(f, cands, s, x) ==
  IF s = <<>> THEN <<x>>
  ELSE IF is_less(f, cands, x, Last(s))
       THEN Append(insert_tail(f, cands, Front(s), x), Last(s))
       ELSE Append(s, x)

RECURSIVE stable_sort(_, _, _)
stable_sort(f, cands, n) ==
  IF n = 0 THEN <<>> ELSE insert_tail(f, cands, stable_sort(f, cands, n - 1), n)

RECURSIVE AllOrders(_)
AllOrders(S) ==
  IF S = {} THEN {<<>>}
  ELSE UNION {{<<x>> \o p : p \in AllOrders(S \ {x})} : x \in S}

\* Every order of a slice of each length that occurs: a slice is a direct
\* argument of select() or a population with its offspring.
MaxSlice == IF 2 * MaxPopulation > MaxCandidates THEN 2 * MaxPopulation ELSE MaxCandidates
MaxLen == IF 2 * MaxSelection > MaxSlice THEN 2 * MaxSelection ELSE MaxSlice
OrdersOfLen == [n \in 0..MaxLen |-> AllOrders(1..n)]

\* The outcomes of population.sort_by(..): the stably sorted order when the
\* comparator is a total order on the slice; otherwise any order, or a panic.
sort_by(f, cands) ==
  IF IsTotalOrder(f, cands)
  THEN {[panicked |-> FALSE, order |-> stable_sort(f, cands, Len(cands))]}
  ELSE {[panicked |-> FALSE, order |-> p] : p \in OrdersOfLen[Len(cands)]}
       \cup {[panicked |-> TRUE, order |-> <<>>]}

\* A truncate that keeps one element too many.
truncate_one_more(s, len) == IF len + 1 >= Len(s) THEN s ELSE SubSeq(s, 1, len + 1)

\* A truncate that keeps the last len elements instead of the first.
truncate_front(s, len) == IF len >= Len(s) THEN s ELSE SubSeq(s, Len(s) - len + 1, Len(s))

\* Vec::truncate(len): keeps the first len elements, no effect when len >= length.
truncate(s, len) == IF len >= Len(s) THEN s ELSE SubSeq(s, 1, len)

\* SimpleSelector::select: the indices of the survivors, in result order.
select(k, f, cands) ==
  {[panicked |-> o.panicked, order |-> truncate(o.order, k)] : o \in sort_by(f, cands)}

\* The values at the chosen indices.
Pick(cands, order) == [i \in DOMAIN order |-> cands[order[i]]]

\* ----------------------------------------------------------------- mutate
\* f64 addition on the grid; NaN is absorbing.
Add(a, d) == IF a.nan THEN NaN ELSE F(a.v + d)

\* random::<f64>() in [0,1) as r/RateDen; (random()*2 - 1) * mutation_size in
\* [-mutation_size, mutation_size) as the grid point u - mutation_size.
TriggerDraws == 0..(RateDen - 1)
PerturbationDraws(mutation_size) ==
  IF mutation_size = 0 THEN {0} ELSE 0..(2 * mutation_size - 1)

\* SimpleMutator::mutate with the two draws r and u made explicit.
mutate(rate, size, individual, r, u) ==
  IF r < rate THEN Add(individual, u - size) ELSE individual

\* The values one call of mutate can leave in *individual, kept on the grid.
MutateOutcomes(rate, size, individual) ==
  {mutate(rate, size, individual, r, u) : r \in TriggerDraws, u \in PerturbationDraws(size)}
    \cap Individuals

\* for individual in &mut offspring { mutate(individual) }: one independent
\* outcome per member, the length unchanged.
RECURSIVE OffspringUpTo(_, _, _, _)
OffspringUpTo(rate, size, pop, n) ==
  IF n = 0 THEN {<<>>}
  ELSE {Append(o, x) : o \in OffspringUpTo(rate, size, pop, n - 1),
                       x \in MutateOutcomes(rate, size, pop[n])}

Offspring(rate, size, pop) == OffspringUpTo(rate, size, pop, Len(pop))

\* ------------------------------------------------------------------ state
VARIABLES
  population,      \* EvolutionStrategy.population
  selection_size,  \* SimpleSelector.selection_size
  objective,       \* SimpleSelector.objective
  mutation_rate,   \* SimpleMutator.mutation_rate, in units of 1/RateDen
  mutation_size,   \* SimpleMutator.mutation_size, in grid steps
  pc,              \* "idle" | "running" | "mutated" | "call" | "returned" | "panicked"
  generations,     \* the argument of the run() call in progress or last made
  iteration,       \* iterations of its for loop completed
  first_parent,    \* <<x>> when new() was handed the one-member population <<x>>, else <<>>
  offspring,       \* the mutated clones of the current or last generation
  candidates,      \* the slice handed to a direct select() call
  order,           \* the indices of candidates a direct select() call returned, in order
  best,            \* <<v>> when best_individual() returned v since the last run, else <<>>
  panic            \* "none" | "sort_by" | "unwrap": where the program panicked

vars == <<population, selection_size, objective, mutation_rate, mutation_size, pc,
          generations, iteration, first_parent, offspring, candidates, order, best,
          panic>>

config == <<selection_size, objective, mutation_rate, mutation_size, first_parent>>

\* EvolutionStrategy::new(population, SimpleMutator::new(..), SimpleSelector::new(..))
Init ==
  /\ population \in SeqsUpTo(Individuals, MaxPopulation)
  /\ first_parent = IF Len(population) = 1 THEN population ELSE <<>>
  /\ selection_size \in 0..MaxSelection
  /\ objective \in Objectives
  /\ mutation_rate = MutationRate
  /\ mutation_size = MutationSize
  /\ pc = "idle"
  /\ generations = 0
  /\ iteration = 0
  /\ offspring = <<>>
  /\ candidates = <<>>
  /\ order = <<>>
  /\ best = <<>>
  /\ panic = "none"

\* run(generations) is entered: for _ in 0..generations
Run(g) ==
  /\ pc = "idle"
  /\ g <= MaxGenerations
  /\ pc' = "running"
  /\ generations' = g
  /\ iteration' = 0
  /\ best' = <<>>
  /\ UNCHANGED <<population, config, offspring, candidates, order, panic>>

\* First half of an iteration of the loop of run: clone the population and
\* mutate every clone.
Mutation ==
  /\ pc = "running"
  /\ iteration < generations
  /\ \E mutated \in Offspring(mutation_rate, mutation_size, population) :
       offspring' = mutated
  /\ pc' = "mutated"
  /\ UNCHANGED <<population, config, generations, iteration, candidates, order, best,
                 panic>>

\* Second half: combine parents and offspring, select, store the survivors.
Selection ==
  /\ pc = "mutated"
  /\ LET combined_population == population \o offspring
         outcomes == select(selection_size, objective, combined_population)
         survivors == {Pick(combined_population, o.order) : o \in {r \in outcomes : ~r.panicked}}
     IN \/ /\ \E s \in survivors : population' = s
           /\ iteration' = iteration + 1
           /\ pc' = "running"
           /\ UNCHANGED panic
        \/ /\ \E o \in outcomes : o.panicked
           /\ pc' = "panicked"
           /\ panic' = "sort_by"
           /\ UNCHANGED <<population, iteration>>
  /\ UNCHANGED <<config, generations, offspring, candidates, order, best>>

\* The range 0..generations is exhausted: run returns.
RunReturn ==
  /\ pc = "running"
  /\ iteration >= generations
  /\ pc' = "idle"
  /\ UNCHANGED <<population, config, generations, iteration, offspring,
                 candidates, order, best, panic>>

\* slice::first(), where the code calls last().
first(s) == IF s = <<>> THEN <<>> ELSE <<s[1]>>

\* A last() that yields a default for the empty slice.
last_or_default(s) == IF s = <<>> THEN <<F(Centre)>> ELSE <<s[Len(s)]>>

\* slice::last(): None (<<>>) for the empty slice, else Some(<<x>>).
last(s) == IF s = <<>> THEN <<>> ELSE <<s[Len(s)]>>

\* best_individual(): self.population.last().unwrap().clone()
BestIndividual ==
  /\ pc = "idle"
  /\ IF last(population) = <<>>
     THEN /\ pc' = "panicked"
          /\ panic' = "unwrap"
          /\ UNCHANGED best
     ELSE /\ best' = last(population)
          /\ UNCHANGED <<pc, panic>>
  /\ UNCHANGED <<population, config, generations, iteration, offspring,
                 candidates, order>>

Next ==
  \/ \E g \in 0..MaxGenerations : Run(g)
  \/ Mutation
  \/ Selection
  \/ RunReturn
  \/ BestIndividual

Spec == Init /\ [][Next]_vars

\* -------------------------------------------- select() called on its own
\* SimpleSelector::new(selection_size, objective), and a slice to select from.
SelectInit ==
  /\ candidates \in SeqsUpTo(Individuals, MaxCandidates)
  /\ selection_size \in 0..MaxSelection
  /\ objective \in Objectives
  /\ pc = "call"
  /\ population = <<>>
  /\ offspring = <<>>
  /\ first_parent = <<>>
  /\ mutation_rate = 0
  /\ mutation_size = 0
  /\ generations = 0
  /\ iteration = 0
  /\ order = <<>>
  /\ best = <<>>
  /\ panic = "none"

\* selector.select(&candidates)
SelectCall ==
  /\ pc = "call"
  /\ \E o \in select(selection_size, objective, candidates) :
       /\ order' = o.order
       /\ pc' = IF o.panicked THEN "panicked" ELSE "returned"
       /\ panic' = IF o.panicked THEN "sort_by" ELSE "none"
  /\ UNCHANGED <<population, config, generations, iteration, offspring,
                 candidates, best>>

SelectNext == SelectCall

SelectSpec == SelectInit /\ [][SelectNext]_vars

\* ================================================================== claims
Score(x) == Apply(objective, x)
Ordered(pop) == \A i \in DOMAIN pop : ~Score(pop[i]).nan
Descending(pop) ==
  \A i, j \in DOMAIN pop : i < j => Ge(Score(pop[i]), Score(pop[j]))
Kept == Range(order)
SameScore(a, b) == ~Score(a).nan /\ ~Score(b).nan /\ Score(a).v = Score(b).v
\* The (1+1) strategy: one parent handed to new(), one survivor per generation.
OnePlusOne == Len(first_parent) = 1 /\ selection_size = 1

C2_TopK ==
  (pc = "returned" /\ candidates # <<>> /\ Ordered(candidates)
     /\ selection_size <= Len(candidates)) =>
    /\ Len(order) = selection_size
    /\ Kept \subseteq DOMAIN candidates
    /\ Cardinality(Kept) = selection_size
    /\ \A i \in Kept : \A j \in DOMAIN candidates \ Kept :
         Ge(Score(candidates[i]), Score(candidates[j]))

\* The example of the spec on the grid: f(x) = x, selection_size = 1, and the
\* middle candidate of three the largest; it alone is returned.
C2_Witness ==
  /\ pc = "returned"
  /\ objective = "identity"
  /\ selection_size = 1
  /\ candidates = <<F(1), F(3), F(2)>>
  /\ Pick(candidates, order) = <<F(3)>>

\* C3: a generation leaves min(selection_size, 2 * size before) individuals;
\* with selection_size = 1 a non-empty population has one member after any
\* generation, and the one-parent strategy has one member whenever run returns.
C3_PopulationSize ==
  /\ [][(pc = "mutated" /\ pc' = "running") =>
          Len(population') = Min(selection_size, 2 * Len(population))]_vars
  /\ []((selection_size = 1 /\ iteration >= 1 /\ population # <<>>) => Len(population) = 1)
  /\ []((OnePlusOne /\ pc = "idle") => Len(population) = 1)

C3_Witness ==
  /\ pc = "idle"
  /\ iteration = MaxGenerations
  /\ selection_size = 1
  /\ Len(population) = 1
  /\ Len(offspring) = MaxPopulation

\* C4 as stated: in the (1+1) strategy the score of best_individual() is >=
\* the score of the initial value after any number of generations.
C4_BestNotBelowInitial ==
  (OnePlusOne /\ best # <<>>) => Ge(Score(best[1]), Score(first_parent[1]))

\* C4 amended: the same, and the score never decreasing from one generation to
\* the next, when the score of the initial value is not NaN; when it is NaN
\* the individual is never replaced.
C4_Monotone ==
  /\ []((OnePlusOne /\ ~Score(first_parent[1]).nan /\ best # <<>>) =>
          Ge(Score(best[1]), Score(first_parent[1])))
  /\ [][(OnePlusOne /\ ~Score(first_parent[1]).nan) =>
          Ge(Score(population'[1]), Score(population[1]))]_vars
  /\ []((OnePlusOne /\ Score(first_parent[1]).nan) => population = first_parent)

C4_Witness ==
  /\ OnePlusOne
  /\ iteration >= 1
  /\ best # <<>>
  /\ Gt(Score(best[1]), Score(first_parent[1]))

\* C5: in the (1+1) strategy a generation replaces the individual by its
\* offspring exactly when the offspring scores strictly higher; on a tie, and
\* whenever the scores do not compare, the parent is kept.
C5_StrictReplace ==
  [][(pc = "mutated" /\ OnePlusOne) =>
       population' = IF Gt(Score(offspring[1]), Score(population[1]))
                     THEN offspring ELSE population]_vars

\* A tie between two different values: the parent stayed.
C5_Witness ==
  /\ OnePlusOne
  /\ pc = "running"
  /\ iteration >= 1
  /\ offspring # population
  /\ SameScore(offspring[1], population[1])
  /\ population = first_parent

\* C6 as stated: after a run of at least one generation, best_individual()
\* returns the last survivor, whose score is <= that of every other survivor.
C6_LastIsWorst ==
  (pc = "idle" /\ iteration >= 1 /\ best # <<>>) =>
    /\ best[1] = Last(population)
    /\ \A i \in 1..(Len(population) - 1) : Ge(Score(population[i]), Score(best[1]))

\* C6 amended: a generation whose candidates all have ordered scores leaves
\* the population in descending score order, and best_individual() returns
\* its last element; so it returns a survivor of the lowest score.
C6_LastOfDescending ==
  /\ [][(pc = "mutated" /\ Ordered(population \o offspring)) =>
          (pc' = "running" /\ Descending(population'))]_vars
  /\ [](best # <<>> => (population # <<>> /\ best[1] = Last(population)))
  /\ []((pc = "idle" /\ iteration >= 1 /\ best # <<>> /\ Ordered(population)
           /\ Ordered(offspring)) =>
          \A i \in DOMAIN population : Ge(Score(population[i]), Score(best[1])))

\* best_individual() has returned a survivor that scores strictly below the
\* first one.
C6_Witness ==
  /\ pc = "idle"
  /\ iteration >= 1
  /\ Len(population) >= 2
  /\ best # <<>>
  /\ Gt(Score(population[1]), Score(best[1]))

C9_Elitism ==
  [][(pc = "mutated" /\ selection_size >= 1 /\ population # <<>>
        /\ Ordered(population \o offspring)) =>
       /\ pc' = "running"
       /\ population' # <<>>
       /\ \A i \in DOMAIN population :
            /\ Ge(Score(population'[1]), Score(population[i]))
            /\ \E j \in DOMAIN population' :
                 Ge(Score(population'[j]), Score(population[i]))]_vars

\* A generation raised the best score: the lone parent and its offspring both
\* survive, the offspring first because it scores strictly higher.
C9_Witness ==
  /\ pc = "running"
  /\ iteration >= 1
  /\ selection_size >= 2
  /\ Len(offspring) = 1
  /\ Len(population) = 2
  /\ population[1] = offspring[1]
  /\ Gt(Score(population[1]), Score(population[2]))

\* C10: best_individual() returns the last element when the population is not
\* empty and panics in unwrap() exactly when it is empty; a generation with
\* selection_size = 0 leaves the population empty.
C10_BestOrCrash ==
  /\ [][(pc = "idle" /\ pc' # "running") =>
          IF population = <<>>
          THEN pc' = "panicked" /\ panic' = "unwrap" /\ best' = best
          ELSE pc' = "idle" /\ panic' = panic /\ best' = <<Last(population)>>]_vars
  /\ [](panic = "unwrap" => population = <<>>)
  /\ [][(pc = "mutated" /\ pc' = "running" /\ selection_size = 0) => population' = <<>>]_vars

\* A one-member population, emptied by a generation with selection_size = 0,
\* on which best_individual() then panicked.
C10_Witness ==
  /\ panic = "unwrap"
  /\ first_parent # <<>>
  /\ selection_size = 0
  /\ iteration >= 1
  /\ population = <<>>

====
